---- MODULE Spec2Model ----
(***************************************************************************)
(* Model of ml-recommender/train_recommender.py: the cleaning of the       *)
(* interaction table, the construction of the Surprise trainset, the SVD   *)
(* fit, get_top_n_for_user and the batch loop that fills the               *)
(* recommendations dict.                                                   *)
(***************************************************************************)
EXTENDS Integers, Sequences, FiniteSets, TLC

\* ---------------------------------------------------------------- bounds
MaxRows == 3
MaxCsvRows == 2
MaxN == 2

\* ------------------------------------------------------ program constants
ScaleMin == 1
ScaleMax == 10
DefaultN == 10
BatchN == 10

\* ------------------------------------------------------------ input sets
UserIds == {"u1", "u2"}
GameIds == {1, 2, 3}
Cells == {"5", "11", "inf", "abc"}
ParsableCells == {"5", "abc"}
NumericCells == {"5"}
\* The estimates are clipped to the rating scale: the two ends of the scale
\* give every order (<, =, >) two candidates can have.
Scores == {ScaleMin, ScaleMax}
NValues == (-1 .. MaxN) \cup {DefaultN}

\* A float as pandas holds it: a finite number, an infinity or NaN.
Num(x) == [kind |-> "num", v |-> x]
Inf == [kind |-> "inf", v |-> 0]
NaN == [kind |-> "nan", v |-> 0]

SeqsUpTo(S, k) == UNION {[1 .. m -> S] : m \in 0 .. k}

CsvRows(games, cells) == [user_id : UserIds, game_id : games, rating : cells]

\* pd.to_numeric(errors="coerce"): a numeric text becomes its number, "inf"
\* becomes the float infinity, anything else becomes NaN.
to_numeric(cell) ==
  CASE cell = "5" -> Num(5)
    [] cell = "11" -> Num(11)
    [] cell = "inf" -> Inf
    [] OTHER -> NaN

\* df["rating"] = pd.to_numeric(...); df = df.dropna(subset=["rating"])
isna(x) == x.kind = "nan"

Coerce(rows) ==
  [k \in 1 .. Len(rows) |->
     [user_id |-> rows[k].user_id, game_id |-> rows[k].game_id,
      rating |-> to_numeric(rows[k].rating)]]

NotNaRow(row) == ~isna(row.rating)

dropna(rows) == SelectSeq(rows, NotNaRow)

Clean(rows) == dropna(Coerce(rows))

\* The distinct values of a column in order of first appearance
\* (pandas unique(); also the order in which Surprise hands out inner ids).
RECURSIVE unique(_)
unique(s) ==
  IF s = <<>> THEN <<>>
  ELSE LET front == unique(SubSeq(s, 1, Len(s) - 1))
           x == s[Len(s)]
       IN IF \E k \in 1 .. Len(front) : front[k] = x THEN front
          ELSE Append(front, x)

Range(s) == {s[k] : k \in 1 .. Len(s)}

Column(rows, col) == [k \in 1 .. Len(rows) |-> rows[k][col]]

IndexOf(s, x) == CHOOSE k \in 1 .. Len(s) : s[k] = x

\* Dataset.load_from_df(...).build_full_trainset(): inner ids are dense,
\* 0-based, assigned in order of first appearance; ur[inner_uid] lists the
\* (inner_iid, rating) pairs of the user in file order.
build_full_trainset(rows) ==
  LET us == unique(Column(rows, "user_id"))
      is == unique(Column(rows, "game_id"))
      r2u == [u \in Range(us) |-> IndexOf(us, u) - 1]
      r2i == [i \in Range(is) |-> IndexOf(is, i) - 1]
      UserRow(u) == LET Mine(row) == row.user_id = u IN SelectSeq(rows, Mine)
  IN [raw2inner_id_users |-> r2u,
      raw2inner_id_items |-> r2i,
      n_users |-> Len(us),
      n_items |-> Len(is),
      ur |-> [uid \in 0 .. Len(us) - 1 |->
                LET mine == UserRow(us[uid + 1])
                IN [k \in 1 .. Len(mine) |->
                      <<r2i[mine[k].game_id], mine[k].rating>>]]]

to_inner_uid(ts, ruid) == ts.raw2inner_id_users[ruid]

to_raw_iid(ts, iid) ==
  CHOOSE r \in DOMAIN ts.raw2inner_id_items : ts.raw2inner_id_items[r] = iid

all_items(ts) == [k \in 1 .. ts.n_items |-> k - 1]

\* ------------------------------------------------------------------ SVD
\* SVD(): an algorithm object that has not been fitted.
Unfit == [fitted |-> FALSE, est |-> <<>>]

\* model.fit(trainset): SVD() is given no random_state, so the factors are
\* drawn from numpy's global generator, which the script never seeds: the
\* fitted estimates are any function of the known (user, item) pairs.
\* predict(...).est is clipped to the rating scale.
FittedModels(ts) ==
  {[fitted |-> TRUE, est |-> e] :
     e \in [(DOMAIN ts.raw2inner_id_users) \X (DOMAIN ts.raw2inner_id_items)
              -> Scores]}

predict(m, ruid, riid) == m.est[<<ruid, riid>>]

\* ------------------------------------------------- get_top_n_for_user
Min(a, b) == IF a < b THEN a ELSE b
Max(a, b) == IF a > b THEN a ELSE b

\* candidates[:n + 1]: a slice one entry too long.
SliceOneMore(s, n) ==
  IF n + 1 >= 0 THEN SubSeq(s, 1, Min(n + 1, Len(s)))
  ELSE SubSeq(s, 1, Max(0, Len(s) + n + 1))

\* candidates[:n]
Slice(s, n) ==
  IF n >= 0 THEN SubSeq(s, 1, Min(n, Len(s)))
  ELSE SubSeq(s, 1, Max(0, Len(s) + n))

\* candidates.sort(key=lambda x: x[1], reverse=True): a stable sort, entries
\* of equal score keep the order they had.
\* The sort without reverse=True: ascending scores.
RECURSIVE sort_forward(_)
sort_forward(s) ==
  IF s = <<>> THEN <<>>
  ELSE LET front == sort_forward(SubSeq(s, 1, Len(s) - 1))
           x == s[Len(s)]
           pos == Cardinality({k \in 1 .. Len(front) : front[k][2] <= x[2]})
       IN SubSeq(front, 1, pos) \o <<x>> \o SubSeq(front, pos + 1, Len(front))

RECURSIVE sort_reverse(_)
sort_reverse(s) ==
  IF s = <<>> THEN <<>>
  ELSE LET front == sort_reverse(SubSeq(s, 1, Len(s) - 1))
           x == s[Len(s)]
           pos == Cardinality({k \in 1 .. Len(front) : front[k][2] >= x[2]})
       IN SubSeq(front, 1, pos) \o <<x>> \o SubSeq(front, pos + 1, Len(front))

Returned(seq, calls) == [raised |-> FALSE, ret |-> seq, predict_calls |-> calls]
Raised(calls) == [raised |-> TRUE, ret |-> <<>>, predict_calls |-> calls]

\* The membership test left out: to_inner_uid raises ValueError for a user
\* the trainset does not know.
no_cold_start(m, ts, raw_user_id, n) == Raised(0)

\* if raw_user_id not in trainset._raw2inner_id_users: return []
cold_start(m, ts, raw_user_id, n) == Returned(<<>>, 0)

\* rated_raw = rated_inner: the inner ids compared with raw ids.
rated_not_converted(ts, inner_uid) ==
  {ts.ur[inner_uid][k][1] : k \in 1 .. Len(ts.ur[inner_uid])}

\* rated_inner, rated_raw
rated_raw(ts, inner_uid) ==
  {to_raw_iid(ts, ts.ur[inner_uid][k][1]) : k \in 1 .. Len(ts.ur[inner_uid])}

all_item_raw_ids(ts) ==
  [k \in 1 .. ts.n_items |-> to_raw_iid(ts, all_items(ts)[k])]

get_top_n_for_user(m, ts, raw_user_id, n) ==
  IF raw_user_id \notin DOMAIN ts.raw2inner_id_users
  THEN cold_start(m, ts, raw_user_id, n)
  ELSE LET inner_uid == to_inner_uid(ts, raw_user_id)
           rated == rated_raw(ts, inner_uid)
           NotRated(raw_iid) == raw_iid \notin rated
           todo == SelectSeq(all_item_raw_ids(ts), NotRated)
       IN IF todo # <<>> /\ ~m.fitted
          THEN Raised(1)  \* predict on an unfitted SVD: AttributeError
          ELSE LET candidates ==
                     [k \in 1 .. Len(todo) |->
                        <<todo[k], predict(m, raw_user_id, todo[k])>>]
               IN Returned(Slice(sort_reverse(candidates), n), Len(todo))

\* ---------------------------------------------------------------- state
VARIABLES pc, csv, df, trainset, model, all_users, idx, recommendations,
          rebuilt, prev_recommendations, rerun, prev_model, call

vars == <<pc, csv, df, trainset, model, all_users, idx, recommendations,
          rebuilt, prev_recommendations, rerun, prev_model, call>>

NoTrainset == build_full_trainset(<<>>)
NoCall == [user |-> "", n |-> 0, out |-> Returned(<<>>, 0), made |-> FALSE]

\* df = pd.read_csv("data/interactions.csv")
Init ==
  /\ csv \in SeqsUpTo(CsvRows(GameIds, ParsableCells), MaxRows)
  /\ df = csv
  /\ pc = "loaded"
  /\ trainset = NoTrainset
  /\ model = Unfit
  /\ all_users = <<>>
  /\ idx = 1
  /\ recommendations = <<>>
  /\ rebuilt = FALSE
  /\ prev_recommendations = <<>>
  /\ rerun = FALSE
  /\ prev_model = Unfit
  /\ call = NoCall

\* The cleaning step: to_numeric, dropna.
CleanStep ==
  /\ pc = "loaded"
  /\ df' = Clean(df)
  /\ pc' = "cleaned"
  /\ UNCHANGED <<csv, trainset, model, all_users, idx, recommendations,
                 rebuilt, prev_recommendations, rerun, prev_model, call>>

\* reader, data, trainset, model = SVD()
BuildTrainset ==
  /\ pc = "cleaned"
  /\ trainset' = build_full_trainset(df)
  /\ model' = Unfit
  /\ pc' = "built"
  /\ UNCHANGED <<csv, df, all_users, idx, recommendations,
                 rebuilt, prev_recommendations, rerun, prev_model, call>>

\* model.fit(trainset)
Fit ==
  /\ pc = "built"
  /\ model' \in FittedModels(trainset)
  /\ pc' = "trained"
  /\ UNCHANGED <<csv, df, trainset, all_users, idx, recommendations,
                 rebuilt, prev_recommendations, rerun, prev_model, call>>

\* The users read from the file as loaded, rows with no numeric rating
\* included.
users_of_file(rows) == unique(Column(csv, "user_id"))

\* all_users = df["user_id"].unique(); recommendations = {}
users_of(rows) == unique(Column(rows, "user_id"))

StartBatch ==
  /\ pc = "trained"
  /\ all_users' = users_of(df)
  /\ recommendations' = <<>>
  /\ idx' = 1
  /\ pc' = "batch"
  /\ UNCHANGED <<csv, df, trainset, model,
                 rebuilt, prev_recommendations, rerun, prev_model, call>>

\* The item list kept as a one-shot iterator shared by the builds: the
\* second build finds it exhausted.
user_recs_once(user) ==
  IF rebuilt THEN <<>>
  ELSE get_top_n_for_user(model, trainset, user, BatchN).ret

\* recs = get_top_n_for_user(model, trainset, user, n=10)
user_recs(user) == get_top_n_for_user(model, trainset, user, BatchN).ret

\* [{"game_id": game_id, "score": float(score)} for game_id, score in recs]
\* (est is a float already: float() leaves it as it is)
as_entries(recs) ==
  [k \in 1 .. Len(recs) |-> [game_id |-> recs[k][1], score |-> recs[k][2]]]

\* recommendations[user] = ...
dict_set(d, key, val) ==
  [x \in (DOMAIN d) \cup {key} |-> IF x = key THEN val ELSE d[x]]

\* One iteration of `for user in all_users`.
BatchStep ==
  /\ pc = "batch"
  /\ idx <= Len(all_users)
  /\ recommendations' =
       dict_set(recommendations, all_users[idx], as_entries(user_recs(all_users[idx])))
  /\ idx' = idx + 1
  /\ UNCHANGED <<pc, csv, df, trainset, model, all_users,
                 rebuilt, prev_recommendations, rerun, prev_model, call>>

\* The loop is over; recommendations is dumped and the script ends.
FinishBatch ==
  /\ pc = "batch"
  /\ idx > Len(all_users)
  /\ pc' = "done"
  /\ UNCHANGED <<csv, df, trainset, model, all_users, idx, recommendations,
                 rebuilt, prev_recommendations, rerun, prev_model, call>>

\* A second batch build over the same model and trainset (section 4 again).
Rebuild ==
  /\ pc = "done"
  /\ ~rebuilt
  /\ rebuilt' = TRUE
  /\ prev_recommendations' = recommendations
  /\ pc' = "trained"
  /\ UNCHANGED <<csv, df, trainset, model, all_users, idx, recommendations,
                 rerun, prev_model, call>>

\* A second run of the script over the same file.
Rerun ==
  /\ pc = "done"
  /\ ~rerun
  /\ rerun' = TRUE
  /\ prev_model' = model
  /\ df' = csv
  /\ pc' = "loaded"
  /\ rebuilt' = FALSE
  /\ prev_recommendations' = <<>>
  /\ UNCHANGED <<csv, trainset, model, all_users, idx, recommendations, call>>

Next ==
  \/ CleanStep
  \/ BuildTrainset
  \/ Fit
  \/ StartBatch
  \/ BatchStep
  \/ FinishBatch
  \/ Rebuild

Spec == Init /\ [][Next]_vars

\* ------------------------------------------------ two runs of the script
\* The file may hold any cell in the rating column.
InitRuns ==
  /\ csv \in SeqsUpTo(CsvRows(GameIds, Cells), MaxCsvRows)
  /\ df = csv
  /\ pc = "loaded"
  /\ trainset = NoTrainset
  /\ model = Unfit
  /\ all_users = <<>>
  /\ idx = 1
  /\ recommendations = <<>>
  /\ rebuilt = FALSE
  /\ prev_recommendations = <<>>
  /\ rerun = FALSE
  /\ prev_model = Unfit
  /\ call = NoCall

NextRuns ==
  \/ Next
  \/ Rerun

SpecRuns == InitRuns /\ [][NextRuns]_vars

\* ------------------------------------------- get_top_n_for_user as called
\* The function takes the model and the trainset as arguments: a caller may
\* hand it a fitted SVD or one that was never fitted.
InitRec ==
  /\ csv \in SeqsUpTo(CsvRows(GameIds, NumericCells), MaxRows)
  /\ df = Clean(csv)
  /\ trainset = build_full_trainset(df)
  /\ model \in {Unfit} \cup FittedModels(trainset)
  /\ pc = "interactive"
  /\ all_users = <<>>
  /\ idx = 1
  /\ recommendations = <<>>
  /\ rebuilt = FALSE
  /\ prev_recommendations = <<>>
  /\ rerun = FALSE
  /\ prev_model = Unfit
  /\ call = NoCall

\* One call is observed per behaviour: the function changes nothing it reads,
\* so a later call would start from the very same model and trainset.
Call(u, n) ==
  /\ pc = "interactive"
  /\ call' = [user |-> u, n |-> n, made |-> TRUE,
              out |-> get_top_n_for_user(model, trainset, u, n)]
  /\ pc' = "returned"
  /\ UNCHANGED <<csv, df, trainset, model, all_users, idx, recommendations,
                 rebuilt, prev_recommendations, rerun, prev_model>>

NextRec == \E u \in UserIds, n \in NValues : Call(u, n)

SpecRec == InitRec /\ [][NextRec]_vars

\* --------------------------------------------------------------- claims
\* What the cleaned table says, read off its rows directly.
KnownUsers == {df[k].user_id : k \in 1 .. Len(df)}
KnownItems == {df[k].game_id : k \in 1 .. Len(df)}
RatedBy(u) == {df[k].game_id : k \in {j \in 1 .. Len(df) : df[j].user_id = u}}
Unrated(u) == KnownItems \ RatedBy(u)
FirstSeen(i) == CHOOSE k \in 1 .. Len(df) :
                  /\ df[k].game_id = i
                  /\ \A j \in 1 .. k - 1 : df[j].game_id # i
InScale(x) == x.kind = "num" /\ ScaleMin <= x.v /\ x.v <= ScaleMax
Returns == call.made /\ ~call.out.raised
Recs == call.out.ret
Training == pc \in {"trained", "batch", "done"}

\* C1: for a known user and any n, no item get_top_n_for_user returns is one
\* the user rated in the training set, whatever the model's estimates are.
C1_NoRatedItem ==
  (Returns /\ call.user \in KnownUsers) =>
     \A k \in 1 .. Len(Recs) : Recs[k][1] \notin RatedBy(call.user)

C1_Witness ==
  /\ Returns
  /\ model.fitted
  /\ call.user \in KnownUsers
  /\ Len(Recs) = 2
  /\ Cardinality(RatedBy(call.user)) = 1

C3_UnknownUserEmpty ==
  (call.made /\ call.user \notin KnownUsers) =>
     /\ ~call.out.raised
     /\ Recs = <<>>
     /\ call.out.predict_calls = 0

C3_Witness ==
  /\ call.made
  /\ call.user \notin KnownUsers
  /\ model.fitted
  /\ KnownItems # {}
  /\ call.n > 0
  /\ Recs = <<>>

\* C4: for a known user and n >= 0 the result has exactly
\* min(n, number of known items the user has not rated) entries.
C4_Length ==
  (Returns /\ call.user \in KnownUsers /\ call.n >= 0) =>
     Len(Recs) = Min(call.n, Cardinality(Unrated(call.user)))

C4_Witness ==
  /\ Returns
  /\ model.fitted
  /\ call.user \in KnownUsers
  /\ call.n = 1
  /\ Cardinality(Unrated(call.user)) = 2
  /\ Len(Recs) = 1

\* C5: a cleaned record whose rating is not finite or lies outside the scale
\* stops the run before training; none is accepted into the training set.
C5_InvalidRatingRejected ==
  Training =>
     /\ \A k \in 1 .. Len(df) : InScale(df[k].rating)
     /\ \A uid \in DOMAIN trainset.ur : \A k \in 1 .. Len(trainset.ur[uid]) :
          InScale(trainset.ur[uid][k][2])

\* C6: with no record left after cleaning, training does not proceed and no
\* recommendation mapping is produced.
C6_EmptyDatasetRejected == Training => Len(df) > 0

\* C7: when the batch build is over, the keys of the mapping are exactly the
\* users the trainset knows, and each user's value is the user's
\* get_top_n_for_user result for n = 10, entry by entry in the same order.
C7_BatchMapping ==
  pc = "done" =>
     /\ DOMAIN recommendations = DOMAIN trainset.raw2inner_id_users
     /\ \A u \in DOMAIN recommendations :
          LET top == get_top_n_for_user(model, trainset, u, 10).ret
          IN /\ Len(recommendations[u]) = Len(top)
             /\ \A k \in 1 .. Len(top) :
                  /\ recommendations[u][k].game_id = top[k][1]
                  /\ recommendations[u][k].score = top[k][2]

C7_Witness ==
  /\ pc = "done"
  /\ ~rebuilt
  /\ Cardinality(DOMAIN recommendations) = 2
  /\ \E u \in DOMAIN recommendations :
       /\ Len(recommendations[u]) = 2
       /\ recommendations[u][1].score > recommendations[u][2].score

C9_Deterministic ==
  (rerun /\ Training /\ \A k \in 1 .. Len(df) : InScale(df[k].rating)) =>
     model = prev_model

\* C10: called with a model that was never fitted, get_top_n_for_user fails
\* for every user and every n; it returns no sequence, empty or not.
C10_UntrainedFails == (call.made /\ ~model.fitted) => call.out.raised

====
